---- MODULE Spec2Model ----
(***************************************************************************)
(* Model of the Go RouteBoxer (maxencehenneron/routeboxer).                *)
(*                                                                         *)
(* Coordinates are fixed-point angles.  One model unit is 0.0005 degree,   *)
(* so that the merge epsilon of 0.001 degree is 2 units and a half turn    *)
(* (pi radians, 180 degrees) is 360000 units.  Distances are measured by   *)
(* the angle they subtend (dist / EarthRadius of the code), in the same    *)
(* unit.  Routes lie within a few units of the equator, where cos(lat) is  *)
(* 1 and the isometric latitude equals the latitude at this resolution, so *)
(* a rhumb line is a straight line of the (lng, lat) plane.                *)
(*                                                                         *)
(* A vertex is a record [lng, lat] of integers.  The crossing points of    *)
(* getGridIntersect are not on the integer lattice; an exact coordinate is *)
(* a record [w, n, d] standing for w + n/d with d > 0.                     *)
(* Go slices are 0-indexed: At(s, i) reads s[i].                           *)
(***************************************************************************)
EXTENDS Integers, Sequences, FiniteSets

\* ---------------------------------------------------------------- bounds
\* vertex coordinates are 2*k units, k in 0..MaxCoord, relative to a base
MaxCoord == 2
\* a route has at most MaxVertices vertices (0 is the empty route)
MaxVertices == 2
\* Boxes() is called at most MaxCalls times on one RouteBoxer
MaxCalls == 2
\* the largest distanceRange tried
MaxDist == 3
\* A terminating buildGrid adds at most 2*MaxCoord + 3 lines to a grid axis
\* at each call of Boxes(); a growth loop whose condition still
\* holds at MaxLines lines is one that never stops: its lines are all equal
\* (distanceRange = 0) or all wrapped below the east edge.
MaxLines == (MaxCalls * ((2 * MaxCoord) + 3)) + 2

\* ---------------------------------------------------- program constants
\* math.Pi radians, in model units
Pi == 360000
\* the 0.001 degree of mergeBoxesX / mergeBoxesY, in model units
Epsilon == 2
\* getGridIntersect scales the distance by EarthRadius / 1000 while
\* RhumbDestinationPoint divides it by EarthRadius
KmDivisor == 1000

VARIABLES distanceRange, vertices, latGrid, lngGrid, grid, boxesX, boxesY,
          pc, fault, result, firstResult, calls

vars == <<distanceRange, vertices, latGrid, lngGrid, grid, boxesX, boxesY,
          pc, fault, result, firstResult, calls>>

\* ----------------------------------------------------------- arithmetic
At(s, i) == s[i + 1]

InRange(s, i) == i >= 0 /\ i < Len(s)

Abs(x) == IF x < 0 THEN -x ELSE x

Min(a, b) == IF a <= b THEN a ELSE b

Max(a, b) == IF a >= b THEN a ELSE b

Sign(x) == IF x > 0 THEN 1 ELSE IF x < 0 THEN -1 ELSE 0

\* an integer as an exact coordinate
Exact(v) == [w |-> v, n |-> 0, d |-> 1]

\* sign of a - b for exact coordinates
Cmp(a, b) == Sign(((a.w - b.w) * a.d * b.d) + (a.n * b.d) - (b.n * a.d))

\* grid line g (an integer) against an exact coordinate q
LineLess(g, q) == (g - q.w) * q.d < q.n

LineGreater(g, q) == (g - q.w) * q.d > q.n

\* math.Remainder(x, y), the IEEE 754 remainder: x - n*y where n is the
\* integer nearest to x/y, a tie going to the even n.  nudge is the sign of
\* a fraction added to x (0 for none), which only matters on a tie.
Remainder(x, nudge, y) ==
    LET q == x \div y
        r == x % y
        n == IF 2 * r < y THEN q
             ELSE IF 2 * r > y THEN q + 1
             ELSE IF nudge > 0 THEN q + 1
             ELSE IF nudge < 0 THEN q
             ELSE IF q % 2 = 0 THEN q ELSE q + 1
    IN  x - (n * y)

\* lon2 of RhumbDestinationPoint for lon1 + dLon = q (exact coordinate whose
\* fraction is below one half): math.Remainder(lon1+dLon+3*math.Pi, (2*math.Pi)-math.Pi)
NormalizeLng(q) ==
    [w |-> Remainder(q.w + (3 * Pi), Sign(q.n), (2 * Pi) - Pi), n |-> q.n, d |-> q.d]

\* lat2 of RhumbDestinationPoint: reflected at a pole when beyond it
ReflectLat(lat2) ==
    IF 2 * Abs(lat2) > Pi
    THEN IF lat2 > 0 THEN Pi - lat2 ELSE (-Pi) - lat2
    ELSE lat2

\* cos and sin of the four bearings buildGrid uses.  math.Cos of 90 and 270
\* degrees is of the order 1e-16, so dLat is below 1e-10 and set to 0.
Cos(brng) == CASE brng = 0 -> 1 [] brng = 180 -> -1 [] OTHER -> 0

Sin(brng) == CASE brng = 90 -> 1 [] brng = 270 -> -1 [] OTHER -> 0

\* RhumbDestinationPoint for a bearing of 0, 90, 180 or 270 degrees.  On a
\* parallel dPhi = 0 and q = cos(lat1) = 1; on a meridian dLon = 0.
RhumbDestinationPoint(currentPoint, brng, dist) ==
    LET dLat == dist * Cos(brng)
        dLon == dist * Sin(brng)
    IN  [lat |-> ReflectLat(currentPoint.lat + dLat),
         lng |-> NormalizeLng(Exact(currentPoint.lng + dLon)).w]

\* RhumBearingTo: the bearing is atan2(dLon, dPhi); the model keeps the pair.
RhumBearingTo(point, dest) ==
    LET raw == dest.lng - point.lng
        dLon == IF Abs(raw) > Pi
                THEN IF raw > 0 THEN -((2 * Pi) - raw) ELSE (2 * Pi) + raw
                ELSE raw
    IN  [dLon |-> dLon, dPhi |-> dest.lat - point.lat]

\* getGridIntersect: d = (EarthRadius/1000) * (dlat / cos brng), and
\* RhumbDestinationPoint then moves d / EarthRadius along brng:
\* dLat = dlat / 1000 and dLon = dLat * tan(brng) = dLat * dLon_seg / dPhi_seg.
getGridIntersect(start, brng, gridLineLat) ==
    LET dl == gridLineLat - start.lat
    IN  [lat |-> [w |-> start.lat, n |-> dl, d |-> KmDivisor],
         lng |-> NormalizeLng([w |-> start.lng,
                               n |-> dl * brng.dLon * Sign(brng.dPhi),
                               d |-> KmDivisor * Abs(brng.dPhi)])]

\* ------------------------------------------------------------ buildGrid
\* PointSet.Bound() of go.geo; the empty set gives the bound (0,0,0,0)
RECURSIVE FoldMin(_, _, _), FoldMax(_, _, _)
FoldMin(vs, f, i) ==
    IF i = Len(vs) THEN vs[i][f] ELSE Min(vs[i][f], FoldMin(vs, f, i + 1))

FoldMax(vs, f, i) ==
    IF i = Len(vs) THEN vs[i][f] ELSE Max(vs[i][f], FoldMax(vs, f, i + 1))

Bound(vs) ==
    IF Len(vs) = 0 THEN [w |-> 0, s |-> 0, e |-> 0, n |-> 0]
    ELSE [w |-> FoldMin(vs, "lng", 1), s |-> FoldMin(vs, "lat", 1),
          e |-> FoldMax(vs, "lng", 1), n |-> FoldMax(vs, "lat", 1)]

\* Bound.Center(); vertex coordinates are even, so the halves are exact
Center(b) == [lng |-> (b.e + b.w) \div 2, lat |-> (b.n + b.s) \div 2]

\* for i := 2; lines[i-2] < limit; i++ { lines = append(lines, line(i)) }
\* with line(i) the f coordinate of RhumbDestinationPoint(c, brng, dist*i).
\* cut: the condition still held when the axis had MaxLines lines.
RECURSIVE GrowUp(_, _, _, _, _, _, _)
GrowUp(lines, i, limit, c, brng, dist, f) ==
    IF ~(At(lines, i - 2) < limit) THEN [lines |-> lines, cut |-> FALSE]
    ELSE IF Len(lines) >= MaxLines THEN [lines |-> lines, cut |-> TRUE]
    ELSE GrowUp(Append(lines, RhumbDestinationPoint(c, brng, dist * i)[f]),
                i + 1, limit, c, brng, dist, f)

\* for i := 1; lines[1] > limit; i++ { lines = append([line(i)], lines...) }
RECURSIVE GrowDown(_, _, _, _, _, _, _)
GrowDown(lines, i, limit, c, brng, dist, f) ==
    IF ~(At(lines, 1) > limit) THEN [lines |-> lines, cut |-> FALSE]
    ELSE IF Len(lines) >= MaxLines THEN [lines |-> lines, cut |-> TRUE]
    ELSE GrowDown(<<RhumbDestinationPoint(c, brng, dist * i)[f]>> \o lines,
                  i + 1, limit, c, brng, dist, f)

\* one axis of buildGrid: the centre line, one line beyond it, the lines up
\* to the far edge, then the lines down to the near edge
GridAxis(old, c, dist, f, up, down, lo, hi) ==
    LET two == Append(Append(old, c[f]), RhumbDestinationPoint(c, up, dist)[f])
        upper == GrowUp(two, 2, hi, c, up, dist, f)
    IN  IF upper.cut THEN upper
        ELSE GrowDown(upper.lines, 1, lo, c, down, dist, f)

\* Boxes() begins: r.buildGrid().  The latitude loops run first; a loop that
\* never stops is the end of the computation.
BuildGrid ==
    /\ pc = "start"
    /\ LET b == Bound(vertices)
           c == Center(b)
           lat == GridAxis(latGrid, c, distanceRange, "lat", 0, 180, b.s, b.n)
           lng == GridAxis(lngGrid, c, distanceRange, "lng", 90, 270, b.w, b.e)
       IN  /\ latGrid' = lat.lines
           /\ lngGrid' = IF lat.cut THEN lngGrid ELSE lng.lines
           /\ pc' = IF lat.cut \/ lng.cut THEN "diverged" ELSE "built"
           /\ grid' = IF lat.cut \/ lng.cut THEN grid ELSE {}
    /\ UNCHANGED <<distanceRange, vertices, boxesX, boxesY, fault, result,
                   firstResult, calls>>

\* ------------------------------------------------ FindIntersectingCells
\* a cell is <<x, y>>: cell[1] the column (longitude), cell[2] the row.
\* A scan that leaves its slice is Go's index-out-of-range panic: <<>>.
ExactPoint(v) == [lng |-> Exact(v.lng), lat |-> Exact(v.lat)]

\* for x = 0; lines[x] < v; x++ {}
RECURSIVE ScanFirst(_, _, _)
ScanFirst(lines, x, v) ==
    IF ~InRange(lines, x) THEN <<>>
    ELSE IF At(lines, x) < v THEN ScanFirst(lines, x + 1, v)
    ELSE <<x>>

getCellCoords(latlng) ==
    LET x == ScanFirst(lngGrid, 0, latlng.lng)
        y == ScanFirst(latGrid, 0, latlng.lat)
    IN  IF x = <<>> \/ y = <<>> THEN <<>> ELSE <<x[1] - 1, y[1] - 1>>

\* for x = hint; lines[x+1] < q; x++ {}
RECURSIVE ScanForward(_, _, _)
ScanForward(lines, x, q) ==
    IF ~InRange(lines, x + 1) THEN <<>>
    ELSE IF LineLess(At(lines, x + 1), q) THEN ScanForward(lines, x + 1, q)
    ELSE <<x>>

\* for x = hint; lines[x] > q; x-- {}
RECURSIVE ScanBackward(_, _, _)
ScanBackward(lines, x, q) ==
    IF ~InRange(lines, x) THEN <<>>
    ELSE IF LineGreater(At(lines, x), q) THEN ScanBackward(lines, x - 1, q)
    ELSE <<x>>

ScanFromHint(lines, h, q, hintq) ==
    IF Cmp(q, hintq) > 0 THEN ScanForward(lines, h, q) ELSE ScanBackward(lines, h, q)

\* latlng and hintlatlng are points with exact coordinates
getGridCoordsFromHint(latlng, hintlatlng, hint) ==
    LET x == ScanFromHint(lngGrid, hint[1], latlng.lng, hintlatlng.lng)
        y == ScanFromHint(latGrid, hint[2], latlng.lat, hintlatlng.lat)
    IN  IF x = <<>> \/ y = <<>> THEN <<>> ELSE <<x[1], y[1]>>

\* grid is the set of cells holding 1; r.grid has len(lngGrid) columns of
\* len(latGrid) entries
InGrid(x, y) == InRange(lngGrid, x) /\ InRange(latGrid, y)

Neighbourhood(cell) ==
    {<<cell[1] + i, cell[2] + j>> : i \in {-1, 0, 1}, j \in {-1, 0, 1}}

Marked(g) == [fault |-> "none", grid |-> g]

Panic(what) == [fault |-> what, grid |-> {}]

markCell(g, cell) ==
    IF \A c \in Neighbourhood(cell) : InGrid(c[1], c[2])
    THEN Marked(g \cup Neighbourhood(cell))
    ELSE Panic("markCell")

\* the columns startx..endx (either order) of row y, marked one by one
fillInGridSquares(g, startx, endx, y) ==
    LET xs == IF startx < endx THEN startx..endx ELSE endx..startx
    IN  IF \A x \in xs : markCell(g, <<x, y>>).fault = "none"
        THEN Marked(g \cup UNION {Neighbourhood(<<x, y>>) : x \in xs})
        ELSE Panic("markCell")

\* one latitude grid line i of getGridIntersects, then the next; row is the
\* row filled for line i (i-1 going north, i going south) and step is +1 or -1
RECURSIVE CrossLines(_, _, _, _, _, _, _, _)
CrossLines(g, start, brng, i, step, hint, hintXY, endXY) ==
    LET more == IF step = 1 THEN i <= endXY[2] ELSE i > endXY[2]
        row == IF step = 1 THEN i - 1 ELSE i
    IN  IF ~more THEN fillInGridSquares(g, hintXY[1], endXY[1], row)
        ELSE IF ~InRange(latGrid, i) THEN Panic("latGrid")
        ELSE LET edgePoint == getGridIntersect(start, brng, At(latGrid, i))
                 edgeXY == getGridCoordsFromHint(edgePoint, hint, hintXY)
             IN  IF edgeXY = <<>> THEN Panic("gridLine")
                 ELSE LET f == fillInGridSquares(g, hintXY[1], edgeXY[1], row)
                      IN  IF f.fault # "none" THEN f
                          ELSE CrossLines(f.grid, start, brng, i + step, step,
                                          edgePoint, edgeXY, endXY)

getGridIntersects(g, start, end, startXY, endXY) ==
    LET brng == RhumBearingTo(start, end)
    IN  IF end.lat > start.lat
        THEN CrossLines(g, start, brng, startXY[2] + 1, 1,
                        ExactPoint(start), startXY, endXY)
        ELSE CrossLines(g, start, brng, startXY[2], -1,
                        ExactPoint(start), startXY, endXY)

\* the cell is edge-adjacent to the west or to the south of the hint cell
AdjacentBelow(hintXY, gridXY) ==
    \/ hintXY[1] - gridXY[1] = 1 /\ hintXY[2] = gridXY[2]
    \/ hintXY[1] = gridXY[1] /\ hintXY[2] - gridXY[2] = 1

\* the loop of FindIntersectingCells from vertex i (0-indexed) on
RECURSIVE TraceFrom(_, _, _)
TraceFrom(i, hintXY, g) ==
    IF i >= Len(vertices) THEN Marked(g)
    ELSE LET gridXY == getGridCoordsFromHint(ExactPoint(At(vertices, i)),
                                             ExactPoint(At(vertices, i - 1)), hintXY)
         IN  IF gridXY = <<>> THEN Panic("gridLine")
             ELSE IF gridXY = hintXY THEN TraceFrom(i + 1, hintXY, g)
             ELSE LET m == IF AdjacentBelow(hintXY, gridXY)
                           THEN markCell(g, gridXY)
                           ELSE getGridIntersects(g, At(vertices, i - 1),
                                                  At(vertices, i), hintXY, gridXY)
                  IN  IF m.fault # "none" THEN m
                      ELSE TraceFrom(i + 1, gridXY, m.grid)

TraceRoute ==
    IF Len(vertices) = 0 THEN Panic("vertices[0]")
    ELSE LET hintXY == getCellCoords(At(vertices, 0))
         IN  IF hintXY = <<>> THEN Panic("gridLine")
             ELSE LET m == markCell(grid, hintXY)
                  IN  IF m.fault # "none" THEN m ELSE TraceFrom(1, hintXY, m.grid)

FindIntersectingCells ==
    /\ pc = "built"
    /\ LET t == TraceRoute
       IN  /\ fault' = t.fault
           /\ grid' = IF t.fault = "none" THEN t.grid ELSE grid
           /\ pc' = IF t.fault = "none" THEN "traced" ELSE "panic"
    /\ UNCHANGED <<distanceRange, vertices, latGrid, lngGrid, boxesX, boxesY,
                   result, firstResult, calls>>

\* ----------------------------------------------- mergeIntersectingCells
\* a geo.Bound is [w, s, e, n]: its south-west and north-east corners
NewBoundFromPoints(lat1, lng1, lat2, lng2) ==
    [w |-> Min(lng1, lng2), s |-> Min(lat1, lat2),
     e |-> Max(lng1, lng2), n |-> Max(lat1, lat2)]

\* Bound.Extend with the point (lng, lat)
Extend(b, lng, lat) ==
    [w |-> Min(b.w, lng), s |-> Min(b.s, lat), e |-> Max(b.e, lng), n |-> Max(b.n, lat)]

getCellBounds(cell) ==
    NewBoundFromPoints(At(latGrid, cell[2]), At(lngGrid, cell[1]),
                       At(latGrid, cell[2] + 1), At(lngGrid, cell[1] + 1))

\* getCellBounds reads grid line cell+1 on both axes
HasBounds(cell) == InRange(lngGrid, cell[1] + 1) /\ InRange(latGrid, cell[2] + 1)

\* math.Abs(a - b) < 0.001
Near(a, b) == Abs(a - b) < Epsilon

MatchesX(old, box) == Near(old.e, box.w) /\ Near(old.s, box.s) /\ Near(old.n, box.n)

MatchesY(old, box) == Near(old.n, box.s) /\ Near(old.w, box.w) /\ Near(old.e, box.e)

\* the first box of boxes that box matches is extended to box's north-east
\* corner; without a match box is appended.  current is <<>> for nil.
RECURSIVE MergeInto(_, _, _, _)
MergeInto(boxes, box, i, byRow) ==
    IF i > Len(boxes) THEN Append(boxes, box)
    ELSE IF (byRow /\ MatchesY(boxes[i], box)) \/ (~byRow /\ MatchesX(boxes[i], box))
         THEN [boxes EXCEPT ![i] = Extend(boxes[i], box.e, box.n)]
         ELSE MergeInto(boxes, box, i + 1, byRow)

mergeBoxesX(boxes, current) ==
    IF current = <<>> THEN boxes ELSE MergeInto(boxes, current[1], 1, FALSE)

mergeBoxesY(boxes, current) ==
    IF current = <<>> THEN boxes ELSE MergeInto(boxes, current[1], 1, TRUE)

MergeBox(boxes, current, byRow) ==
    IF byRow THEN mergeBoxesY(boxes, current) ELSE mergeBoxesX(boxes, current)

\* The inner loop of a traversal from cell j of line o on: along row o
\* (byRow, j the column) or along column o (j the row), with the merge of
\* the pending box that follows the loop.  Len(boxes) < 0 never holds: the
\* test makes TLC evaluate the accumulator at every cell instead of keeping
\* a chain of pending merges as long as the grid.
RECURSIVE Run(_, _, _, _, _)
Run(o, j, current, boxes, byRow) ==
    LET inner == IF byRow THEN Len(lngGrid) ELSE Len(latGrid)
        cell == IF byRow THEN <<j, o>> ELSE <<o, j>>
    IN  IF j >= inner \/ Len(boxes) < 0 THEN MergeBox(boxes, current, byRow)
        ELSE IF cell \in grid
             THEN LET box == getCellBounds(cell)
                  IN  Run(o, j + 1,
                          IF current = <<>> THEN <<box>>
                          ELSE <<Extend(current[1], box.e, box.n)>>,
                          boxes, byRow)
             ELSE Run(o, j + 1, <<>>, MergeBox(boxes, current, byRow), byRow)

\* The outer loop of a traversal from line o on: the rows (byRow) or the
\* columns of the grid.
RECURSIVE Traverse(_, _, _)
Traverse(o, boxes, byRow) ==
    LET outer == IF byRow THEN Len(latGrid) ELSE Len(lngGrid)
    IN  IF o >= outer THEN boxes
        ELSE Traverse(o + 1, Run(o, 0, <<>>, boxes, byRow), byRow)

MergeIntersectingCells ==
    /\ pc = "traced"
    /\ IF \A cell \in grid : HasBounds(cell)
       THEN /\ boxesY' = Traverse(0, boxesY, TRUE)
            /\ boxesX' = Traverse(0, boxesX, FALSE)
            /\ pc' = "merged"
            /\ fault' = fault
       ELSE /\ pc' = "panic"
            /\ fault' = "getCellBounds"
            /\ UNCHANGED <<boxesX, boxesY>>
    /\ UNCHANGED <<distanceRange, vertices, latGrid, lngGrid, grid, result,
                   firstResult, calls>>

\* a Boxes() that returns boxesX only when it is strictly the smaller set
ReturnedBoxesStrict(bx, by) == IF Len(bx) < Len(by) THEN bx ELSE by

\* if len(r.boxesX) <= len(r.boxesY) { return r.boxesX } else { return r.boxesY }
ReturnedBoxes(bx, by) == IF Len(bx) <= Len(by) THEN bx ELSE by

\* Boxes() returns
Return ==
    /\ pc = "merged"
    /\ result' = ReturnedBoxes(boxesX, boxesY)
    /\ firstResult' = IF calls = 1 THEN ReturnedBoxes(boxesX, boxesY) ELSE firstResult
    /\ pc' = "done"
    /\ UNCHANGED <<distanceRange, vertices, latGrid, lngGrid, grid, boxesX,
                   boxesY, fault, calls>>

\* Boxes() is called again on the same RouteBoxer
BoxesAgain ==
    /\ pc = "done"
    /\ calls < MaxCalls
    /\ calls' = calls + 1
    /\ pc' = "start"
    /\ UNCHANGED <<distanceRange, vertices, latGrid, lngGrid, grid, boxesX,
                   boxesY, fault, result, firstResult>>

\* ------------------------------------------------------ the route boxer
Coords == {2 * k : k \in 0..MaxCoord}

Points(base) == {[lng |-> base + x, lat |-> y] : x \in Coords, y \in Coords}

Routes(base) == UNION {[1..n -> Points(base)] : n \in 0..MaxVertices}

\* NewRouteBoxer, followed by the first call of Boxes()
NewRouteBoxer(base) ==
    /\ distanceRange \in 0..MaxDist
    /\ vertices \in Routes(base)
    /\ latGrid = <<>>
    /\ lngGrid = <<>>
    /\ grid = {}
    /\ boxesX = <<>>
    /\ boxesY = <<>>
    /\ pc = "start"
    /\ fault = "none"
    /\ result = <<>>
    /\ firstResult = <<>>
    /\ calls = 1

\* routes about the prime meridian
Init == NewRouteBoxer(0)

Next ==
    \/ BuildGrid
    \/ FindIntersectingCells
    \/ MergeIntersectingCells
    \/ Return
    \/ BoxesAgain

Spec == Init /\ [][Next]_vars

\* routes east of 90 degrees of longitude, and the grid built for them
InitEast == NewRouteBoxer((Pi \div 2) + 2)

SpecEast == InitEast /\ [][BuildGrid]_vars

\* ------------------------------------------------------------ the claims
ValidInput == Len(vertices) >= 1 /\ distanceRange > 0

Returned == pc = "done"

\* the point lies inside or on the edge of the rectangle
Contains(b, v) == b.w <= v.lng /\ v.lng <= b.e /\ b.s <= v.lat /\ v.lat <= b.n

BoxSet(boxes) == {boxes[i] : i \in 1..Len(boxes)}

\* the cells of the grid: cell (x, y) lies between lines x, x+1 and y, y+1
Cells == {<<x, y>> : x \in 0..(Len(lngGrid) - 2), y \in 0..(Len(latGrid) - 2)}

\* the rectangle covers the whole cell
CoversCell(b, cell) ==
    /\ b.w <= At(lngGrid, cell[1]) /\ At(lngGrid, cell[1] + 1) <= b.e
    /\ b.s <= At(latGrid, cell[2]) /\ At(latGrid, cell[2] + 1) <= b.n

\* two rectangles share interior points
Overlap(a, b) == a.w < b.e /\ b.w < a.e /\ a.s < b.n /\ b.s < a.n

\* C1: for a non-empty route and distanceRange > 0, Boxes() completes (it
\* neither panics nor loops for ever) and every vertex of the route lies in
\* or on the edge of a returned rectangle, zero-width and zero-height
\* bounding boxes included.
C1_VerticesCovered ==
    (ValidInput /\ calls = 1) =>
        /\ pc \notin {"panic", "diverged"}
        /\ Returned =>
              \A i \in 1..Len(vertices) :
                  \E j \in 1..Len(result) : Contains(result[j], vertices[i])

\* C2: for a valid route and any distanceRange > 0, however small against
\* the 0.001 degree epsilon, the returned rectangles do not overlap pairwise
\* and every cell is covered by exactly one rectangle when it is marked and
\* by none when it is not.
C2_ExactTiling ==
    (ValidInput /\ calls = 1 /\ Returned) =>
        /\ \A i, j \in 1..Len(result) : i # j => ~Overlap(result[i], result[j])
        /\ \A cell \in Cells :
              Cardinality({i \in 1..Len(result) : CoversCell(result[i], cell)})
                  = IF cell \in grid THEN 1 ELSE 0
        /\ grid \subseteq Cells

\* the cells FindIntersectingCells assigns to vertices 0..i (0-indexed)
RECURSIVE VertexCells(_)
VertexCells(i) ==
    IF i = 0 THEN <<getCellCoords(At(vertices, 0))>>
    ELSE LET before == VertexCells(i - 1)
         IN  Append(before,
                    getGridCoordsFromHint(ExactPoint(At(vertices, i)),
                                          ExactPoint(At(vertices, i - 1)),
                                          before[i]))

EdgeAdjacent(c, d) == Abs(c[1] - d[1]) + Abs(c[2] - d[2]) = 1

\* the straight segment a-b has a point strictly inside the cell.  The
\* segment enters and leaves the cell at parameters that are multiples of
\* 1/(|dx|*|dy|), so a point inside exists iff one exists at a multiple of
\* 1/(2*|dx|*|dy|).
PassesThrough(a, b, cell) ==
    LET dx == b.lng - a.lng
        dy == b.lat - a.lat
        N == 2 * Max(1, Abs(dx)) * Max(1, Abs(dy))
    IN  \E k \in 0..N :
            /\ At(lngGrid, cell[1]) * N < (a.lng * N) + (k * dx)
            /\ (a.lng * N) + (k * dx) < At(lngGrid, cell[1] + 1) * N
            /\ At(latGrid, cell[2]) * N < (a.lat * N) + (k * dy)
            /\ (a.lat * N) + (k * dy) < At(latGrid, cell[2] + 1) * N

\* the latitude grid lines getGridIntersects crosses between two rows
LinesBetween(startXY, endXY) ==
    {i \in 0..(Len(latGrid) - 1) :
        \/ startXY[2] + 1 <= i /\ i <= endXY[2]
        \/ endXY[2] < i /\ i <= startXY[2]}

\* C3: after FindIntersectingCells, for consecutive vertices whose cells
\* are neither equal nor edge-adjacent, every cell the segment between them
\* passes through is marked together with its eight neighbours.
C3_SegmentCellsMarked ==
    (ValidInput /\ calls = 1 /\ pc \in {"traced", "merged", "done"}) =>
        \A i \in 1..(Len(vertices) - 1) :
            LET cells == VertexCells(i)
                a == At(vertices, i - 1)
                b == At(vertices, i)
            IN  (cells[i] # cells[i + 1] /\ ~EdgeAdjacent(cells[i], cells[i + 1])) =>
                    \A cell \in Cells :
                        PassesThrough(a, b, cell) => Neighbourhood(cell) \subseteq grid

\* The reason C3 gives: the crossing point getGridIntersect computes for a
\* latitude grid line between the two rows lies on that line.
CrossingOnGridLine ==
    (ValidInput /\ calls = 1 /\ pc \in {"traced", "merged", "done"}) =>
        \A i \in 1..(Len(vertices) - 1) :
            LET cells == VertexCells(i)
                a == At(vertices, i - 1)
                b == At(vertices, i)
            IN  (cells[i] # cells[i + 1] /\ ~EdgeAdjacent(cells[i], cells[i + 1])) =>
                    \A l \in LinesBetween(cells[i], cells[i + 1]) :
                        Cmp(getGridIntersect(a, RhumBearingTo(a, b), At(latGrid, l)).lat,
                            Exact(At(latGrid, l))) = 0

\* C4: a computation on the empty route ends in an explicit rejection: it
\* builds no grid, never indexes vertices[0] and returns no rectangle set.
C4_EmptyRouteRejected ==
    (Len(vertices) = 0 /\ distanceRange > 0) =>
        /\ pc \in {"start", "rejected"}
        /\ latGrid = <<>> /\ lngGrid = <<>>
        /\ fault # "vertices[0]"

\* C5: with distanceRange <= 0 the computation is rejected before any grid
\* line is generated; it enters no growth loop that never stops and returns
\* no degenerate result.
C5_NonPositiveDistanceRejected ==
    (Len(vertices) >= 1 /\ distanceRange <= 0) =>
        /\ pc \in {"start", "rejected"}
        /\ latGrid = <<>> /\ lngGrid = <<>>

\* C6 as claimed: Boxes() returns the merge result with fewer rectangles,
\* and on a tie the row-first result (boxesY, accumulated by mergeBoxesY).
C6_TieRowFirst ==
    Returned =>
        result = IF Len(boxesX) < Len(boxesY) THEN boxesX
                 ELSE IF Len(boxesY) < Len(boxesX) THEN boxesY
                 ELSE boxesY

\* C6 as amended: Boxes() returns the merge result with fewer rectangles,
\* and on a tie the column-first result (boxesX, accumulated by mergeBoxesX
\* while the grid is scanned column by column).
C6_TieColumnFirst ==
    Returned =>
        /\ result = IF Len(boxesX) < Len(boxesY) THEN boxesX
                    ELSE IF Len(boxesY) < Len(boxesX) THEN boxesY
                    ELSE boxesX
        /\ calls = 1 => /\ boxesX = Traverse(0, <<>>, FALSE)
                        /\ boxesY = Traverse(0, <<>>, TRUE)

\* a tie between two different rectangle sets was returned
C6_Witness ==
    /\ Returned
    /\ Len(boxesX) = Len(boxesY)
    /\ boxesX # boxesY
    /\ result = boxesX

\* a longitude normalized into (-180, 180] degrees
Canonical(lon) == ((lon + Pi - 1) % (2 * Pi)) - Pi + 1

StrictlyIncreasing(lines) ==
    \A i \in 1..(Len(lines) - 1) : lines[i] < lines[i + 1]

\* C7: the longitude RhumbDestinationPoint returns is the true destination
\* longitude normalized into (-180, 180] degrees: an origin beyond 90
\* degrees keeps its longitude when the longitude change is zero, and the
\* longitude grid lines buildGrid derives are strictly increasing.
C7_LongitudeNormalized ==
    (ValidInput /\ calls = 1 /\ pc # "start") =>
        LET c == Center(Bound(vertices))
        IN  /\ RhumbDestinationPoint(c, 0, distanceRange).lng = Canonical(c.lng)
            /\ RhumbDestinationPoint(c, 90, distanceRange).lng
                   = Canonical(c.lng + distanceRange)
            /\ pc = "built" => StrictlyIncreasing(lngGrid)

\* C8: for a non-empty route and distanceRange > 0 every markCell call
\* stays inside the coverage grid, a vertex on the west or south edge of the
\* bounding box included.
C8_MarkCellInGrid ==
    (ValidInput /\ calls = 1) => fault # "markCell"

\* C9: a vertex exactly on grid line k of an axis is assigned cell k on
\* that axis, by getCellCoords and by getGridCoordsFromHint alike.
C9_OnLineCellUniform ==
    (ValidInput /\ calls = 1 /\ pc \in {"traced", "merged", "done"}) =>
        \A i \in 1..Len(vertices) :
            LET cell == VertexCells(i - 1)[i]
            IN  /\ \A k \in 0..(Len(lngGrid) - 1) :
                      At(lngGrid, k) = vertices[i].lng => cell[1] = k
                /\ \A k \in 0..(Len(latGrid) - 1) :
                      At(latGrid, k) = vertices[i].lat => cell[2] = k

\* the grid lines a computation builds from the route and the distance alone
FreshAxis(f, up, down, lo, hi) ==
    GridAxis(<<>>, Center(Bound(vertices)), distanceRange, f, up, down, lo, hi).lines

\* the two sequences hold the same rectangles the same number of times
SameCollection(a, b) ==
    \A x \in BoxSet(a) \cup BoxSet(b) :
        Cardinality({i \in 1..Len(a) : a[i] = x}) = Cardinality({i \in 1..Len(b) : b[i] = x})

\* C10: a second Boxes() call on the same RouteBoxer builds its grid lines
\* and accumulators afresh from the route and the distance, and returns the
\* same collection of rectangles as the first call.
C10_SecondCallSame ==
    (calls = 2 /\ Returned) =>
        /\ SameCollection(result, firstResult)
        /\ latGrid = FreshAxis("lat", 0, 180, Bound(vertices).s, Bound(vertices).n)
        /\ lngGrid = FreshAxis("lng", 90, 270, Bound(vertices).w, Bound(vertices).e)

====
